---- MODULE Spec2Model ----
(***************************************************************************)
(* A model of ScannerApp.py's classification pipeline: safe_post (the      *)
(* retrying POST), check_software_risk_async (one task per item, run       *)
(* under an asyncio.Semaphore) and AsyncWorker.async_run (the loop over    *)
(* asyncio.as_completed that emits update_row and progress).               *)
(*                                                                         *)
(* The remote service is the environment: script[t] is the sequence of     *)
(* outcomes it gives to the successive session.post calls of task t.       *)
(* Tasks are numbered 1..Len(software_list); the index the program uses    *)
(* for the item of task t is t - 1.                                        *)
(***************************************************************************)
EXTENDS Integers, Sequences, FiniteSets, TLC

VARIABLES
    software_list,  \* self.software_list: the item names, in input order
    script,         \* script[t]: the service's outcomes for task t's attempts
    pc,             \* pc[t]: where task t is suspended
    attempt,        \* attempt[t]: safe_post's loop variable (0-based)
    status,         \* status[t]: resp.status of the response being read
    posts,          \* posts[t]: number of session.post calls task t issued
    sleeps,         \* sleeps[t]: the asyncio.sleep durations of task t, in order
    result,         \* result[t]: the tuple check_software_risk_async returned
    semaphore,      \* asyncio.Semaphore's value (free permits)
    done,           \* as_completed's queue: finished tasks not yet yielded
    i,              \* async_run's enumerate index: iterations completed
    events,         \* the signals emitted so far, in order
    served,         \* served[k]: the task whose result the k-th update_row carried
    running         \* TRUE until async_run returns

vars == <<software_list, script, pc, attempt, status, posts, sleeps, result,
          semaphore, done, i, events, served, running>>

----------------------------------------------------------------------------
(* Configuration, ScannerApp.py lines 18-20 *)

MAX_CONCURRENT_REQUESTS == 5

RETRY_DELAY == 5

MAX_RETRIES == 3

----------------------------------------------------------------------------
(* Bounds of the model *)

\* largest batch of the specification Spec
MaxN == 3

\* batch size of the specification SpecGate is MAX_CONCURRENT_REQUESTS + MaxExtra
MaxExtra == 1

\* longest outcome sequence the service is scripted with (SpecCall)
MaxScriptLen == 3

\* largest batch of the specification SpecProgress
MaxLen == 50

----------------------------------------------------------------------------
(* The service's replies *)

\* the names given to the items of a batch, by position
Names == <<"A", "B", "C", "D", "E", "F", "G", "H", "I", "J">>

\* the values of the inner object are JSON strings, the type update_row
\* (pyqtSignal(int, str, str), line 121) declares for them
SafetyValues == {"SAFE", "HARMFUL", "MAYBE"}

RcaValues == {"", "trojan"}

\* the inner JSON objects: any subset of the keys safety and rca
InnerObjects ==
    UNION { [keys -> SafetyValues \cup RcaValues] : keys \in SUBSET {"safety", "rca"} }

WellTypedObjects ==
    { o \in InnerObjects :
        /\ ("safety" \in DOMAIN o => o["safety"] \in SafetyValues)
        /\ ("rca" \in DOMAIN o => o["rca"] \in RcaValues) }

EmptyObject == CHOOSE o \in InnerObjects : DOMAIN o = {}

\* A response text, by what json.loads and the subscripts make of it:
\*   envelope: "notjson"   the body is not JSON
\*             "nocontent" JSON without choices[0].message.content
\*             "ok"        JSON with choices[0].message.content
\*   content:  "notjson"   the content string is not JSON
\*             "notobject" the content is JSON but not an object
\*             "object"    the content is the JSON object obj
Text(envelope, content, obj) ==
    [envelope |-> envelope, content |-> content, obj |-> obj]

Texts ==
    { Text("notjson", "notjson", EmptyObject),
      Text("nocontent", "notjson", EmptyObject),
      Text("ok", "notjson", EmptyObject),
      Text("ok", "notobject", EmptyObject) }
    \cup { Text("ok", "object", o) : o \in WellTypedObjects }

NoText == Text("notjson", "notjson", EmptyObject)

\* One outcome of a session.post call:
\*   kind "raise":  session.post raises (timeout, connection error)
\*   kind "status": a response with this status arrives; readable tells
\*                  whether resp.text() then returns text or raises
Outcome(kind, st, readable, text) ==
    [kind |-> kind, status |-> st, readable |-> readable, text |-> text]

Raises == Outcome("raise", 0, FALSE, NoText)

RateLimited == Outcome("status", 429, FALSE, NoText)

Outcomes ==
    { Raises, RateLimited,
      Outcome("status", 500, FALSE, NoText),
      Outcome("status", 500, TRUE, NoText),
      Outcome("status", 200, FALSE, NoText) }
    \cup { Outcome("status", 200, TRUE, x) : x \in Texts }

----------------------------------------------------------------------------
(* Derived views of the state *)

N == Len(software_list)

Tasks == 1..N

\* the outcome the service gives to the post task t has in flight; a post the
\* script has no outcome for gets no reply and hits its 20 s timeout
OutcomeAt(t, j) ==
    IF j \in 1..Len(script[t]) THEN script[t][j] ELSE Raises

CurrentOutcome(t) == OutcomeAt(t, posts[t])

\* tasks with an HTTP request in flight: posted, response or body not yet in
InFlight == { t \in Tasks : pc[t] \in {"post", "text"} }

\* tasks inside "async with semaphore"
Holders == { t \in Tasks : pc[t] \in {"post", "text", "sleep"} }

----------------------------------------------------------------------------
(* safe_post, lines 77-89 *)

\* "for attempt in range(retries)": the loop body runs for this value
LoopContinues(a) == a < MAX_RETRIES

\* backoff scaled by the 0-based loop variable
SleepTimeZeroBased(a) == RETRY_DELAY * a

\* "await asyncio.sleep(delay * (attempt + 1))"
SleepTime(a) == RETRY_DELAY * (a + 1)

\* every status but 200 taken as retryable
IsRateLimitAnyError(st) == st # 200

\* "if resp.status == 429"
IsRateLimit(st) == st = 429

\* the status of "return None, ..." (None is no HTTP status)
NoneStatus == 0

\* "return None, 'Max retries exceeded'"
MaxRetriesReturn == [status |-> NoneStatus, text |-> "Max retries exceeded"]

----------------------------------------------------------------------------
(* check_software_risk_async, lines 101-116 *)

\* dict.get(key, default)
DictGet(d, key, default) == IF key \in DOMAIN d THEN d[key] ELSE default

\* result["safety"], result["rca"]: an absent key raises KeyError
ParseErrorOnMissingKey(text) ==
    CASE text.envelope = "notjson"   -> "JSONDecodeError"
      [] text.envelope = "nocontent" -> "KeyError"
      [] text.content = "notjson"    -> "JSONDecodeError"
      [] text.content = "notobject"  -> "AttributeError"
      [] DOMAIN text.obj # {"safety", "rca"} -> "KeyError"
      [] OTHER                       -> "none"

\* what the try block of lines 106-111 raises, "none" when it raises nothing:
\* json.loads(text_response) fails, data['choices'][0]['message']['content']
\* is missing, json.loads(text) fails, or the parsed content has no .get
ParseError(text) ==
    CASE text.envelope = "notjson"   -> "JSONDecodeError"
      [] text.envelope = "nocontent" -> "KeyError"
      [] text.content = "notjson"    -> "JSONDecodeError"
      [] text.content = "notobject"  -> "AttributeError"
      [] OTHER                       -> "none"

\* "except json.JSONDecodeError": only the decoding errors are caught
ExceptCatchesJsonOnly(exc) == exc = "JSONDecodeError"

\* line 112, "except Exception": every exception of the try block is caught
ExceptCatches(exc) == exc # "none"

\* a value returned, or an exception leaving the coroutine
Returned(value) == [exc |-> "none", value |-> value]

Raised(exc) == [exc |-> exc, value |-> <<>>]

\* a safety other than SAFE and HARMFUL rewritten to UNKNOWN
ParseResponseNormalised(software_name, text) ==
    IF ParseError(text) = "none"
    THEN Returned(<<software_name,
                    IF DictGet(text.obj, "safety", "UNKNOWN") \in {"SAFE", "HARMFUL"}
                    THEN text.obj["safety"] ELSE "UNKNOWN",
                    DictGet(text.obj, "rca", "")>>)
    ELSE Returned(<<software_name, "UNKNOWN", "Could not parse response">>)

\* lines 106-116: what check_software_risk_async ends with on status 200
ParseResponse(software_name, text) ==
    IF ParseError(text) = "none"
    THEN Returned(<<software_name, DictGet(text.obj, "safety", "UNKNOWN"),
                    DictGet(text.obj, "rca", "")>>)
    ELSE IF ExceptCatches(ParseError(text))
         THEN Returned(<<software_name, "UNKNOWN", "Could not parse response">>)
         ELSE Raised(ParseError(text))

\* the error return without the item's name
ClassifyNamelessError(software_name, ret) ==
    IF ret.status # 200
    THEN Returned(<<"", "UNKNOWN", "Error fetching data">>)
    ELSE ParseResponse(software_name, ret.text)

\* lines 103-116: what check_software_risk_async ends with once safe_post
\* returned ret
Classify(software_name, ret) ==
    IF ret.status # 200
    THEN Returned(<<software_name, "UNKNOWN", "Error fetching data">>)
    ELSE ParseResponse(software_name, ret.text)

\* a gate that never closes
LockedNever == FALSE

\* asyncio.Semaphore.locked()
Locked == semaphore = 0

----------------------------------------------------------------------------
(* AsyncWorker.async_run, lines 133-141 *)

\* enumerate(..., 1): indices counted from one
EmitIndexFromOne(idx, t) == idx + 1

\* the first argument of update_row.emit: the enumerate index of the
\* as_completed loop (idx), for the result of task t
EmitIndex(idx, t) == idx

\* the percentage of the 0-based index
ProgressPercentOfIndex(idx, len) == (idx * 100) \div len

\* IEEE-754 double arithmetic, for (i+1)/len(self.software_list)*100. A
\* double is kept as [mant, exp], standing for mant * 2^-(52+exp), mant being
\* a 53-bit integer written as one leading digit and MantissaDigits digits of
\* DigitBits bits each (1 + 4*13 = 53).
MantissaDigits == 4

DigitBits == 13

RECURSIVE Pow2(_)
Pow2(k) == IF k = 0 THEN 1 ELSE 2 * Pow2(k - 1)

Base == Pow2(DigitBits)

RECURSIVE BitLen(_)
BitLen(x) == IF x = 0 THEN 0 ELSE 1 + BitLen(x \div 2)

\* the e for which c * 2^e / n lies in [1, 2), for 1 <= c <= n
RECURSIVE DivExponent(_, _)
DivExponent(c, n) == IF c >= n THEN 0 ELSE 1 + DivExponent(2 * c, n)

\* the next k digits of r / n, and the remainder left
RECURSIVE DivDigits(_, _, _)
DivDigits(r, n, k) ==
    IF k = 0 THEN [digits |-> <<>>, rem |-> r]
    ELSE LET rest == DivDigits((r * Base) % n, n, k - 1)
         IN  [digits |-> <<(r * Base) \div n>> \o rest.digits, rem |-> rest.rem]

\* the digits ds with their carries propagated into the leading digit
RECURSIVE Carry(_, _)
Carry(ds, carry) ==
    IF Len(ds) = 1 THEN <<ds[1] + carry>>
    ELSE LET last == ds[Len(ds)] + carry
         IN  Carry(SubSeq(ds, 1, Len(ds) - 1), last \div Base) \o <<last % Base>>

AddToLast(ds, x) == [ds EXCEPT ![Len(ds)] = @ + x]

\* c / n for integers 1 <= c <= n, rounded to nearest, ties to even
FloatDiv(c, n) ==
    LET e == DivExponent(c, n)
        a == c * Pow2(e)
        q == DivDigits(a % n, n, MantissaDigits)
        m == <<a \div n>> \o q.digits
        up == 2 * q.rem > n \/ (2 * q.rem = n /\ m[Len(m)] % 2 = 1)
    IN  [mant |-> Carry(AddToLast(m, IF up THEN 1 ELSE 0), 0), exp |-> e]

\* x * k for a small integer k, rounded to nearest, ties to even; the product
\* keeps x's exponent, its mantissa being rounded at the bit 53 places below
\* its leading bit
FloatMul(x, k) ==
    LET p == Carry([j \in 1..Len(x.mant) |-> k * x.mant[j]], 0)
        drop == BitLen(p[1]) - 1
        last == p[Len(p)]
        low == last % Pow2(drop)
        half == Pow2(drop) \div 2
        odd == (last \div Pow2(drop)) % 2 = 1
        up == drop > 0 /\ (low > half \/ (low = half /\ odd))
    IN  [mant |-> Carry(AddToLast(p, (IF up THEN Pow2(drop) ELSE 0) - low), 0),
         exp |-> x.exp]

\* int(x): the integer part
FloatToInt(x) == x.mant[1] \div Pow2(x.exp)

\* the longest software_list of any specification below
LongestList ==
    LET gate == MAX_CONCURRENT_REQUESTS + MaxExtra
        most == IF MaxN > gate THEN MaxN ELSE gate
    IN  IF MaxLen > most THEN MaxLen ELSE most

\* int(c/len*100) in doubles, for every list length and every count of
\* completions c = i+1, computed once
Percentages ==
    [len \in 1..LongestList |->
        [c \in 1..len |-> FloatToInt(FloatMul(FloatDiv(c, len), 100))]]

\* int((i+1)/len(self.software_list)*100), in doubles
ProgressPercent(idx, len) == Percentages[len][idx + 1]

UpdateRow(idx, safety, rca) ==
    [signal |-> "update_row", index |-> idx, safety |-> safety, rca |-> rca, value |-> 0]

Progress(p) ==
    [signal |-> "progress", index |-> 0, safety |-> "", rca |-> "", value |-> p]

----------------------------------------------------------------------------
(* Steps of a task *)

\* one result object shared by the tasks: the verdict of the task that ends
\* replaces the verdicts of the tasks that ended before it
FinishSharedVerdict(t, ret) ==
    /\ result' = [u \in Tasks |->
                     IF u = t \/ pc[u] = "done"
                     THEN Classify(software_list[u], ret)
                     ELSE result[u]]
    /\ semaphore' = semaphore + 1
    /\ pc' = [pc EXCEPT ![t] = "done"]
    /\ done' = Append(done, t)

\* the permit given back on the success path only
FinishReleaseOn200(t, ret) ==
    /\ result' = [result EXCEPT ![t] = Classify(software_list[t], ret)]
    /\ semaphore' = IF ret.status = 200 THEN semaphore + 1 ELSE semaphore
    /\ pc' = [pc EXCEPT ![t] = "done"]
    /\ done' = Append(done, t)

\* the task ends without leaving "async with semaphore"
FinishNoRelease(t, ret) ==
    /\ result' = [result EXCEPT ![t] = Classify(software_list[t], ret)]
    /\ semaphore' = semaphore
    /\ pc' = [pc EXCEPT ![t] = "done"]
    /\ done' = Append(done, t)

\* safe_post returned ret: lines 103-116 run to the return without awaiting,
\* the semaphore is released and as_completed queues the finished task
Finish(t, ret) ==
    /\ result' = [result EXCEPT ![t] = Classify(software_list[t], ret)]
    /\ semaphore' = semaphore + 1
    /\ pc' = [pc EXCEPT ![t] = "done"]
    /\ done' = Append(done, t)

\* the for loop of safe_post reaches iteration a: post again, or fall out of
\* the loop and return the sentinel
Iterate(t, a) ==
    IF LoopContinues(a)
    THEN /\ attempt' = [attempt EXCEPT ![t] = a]
         /\ posts' = [posts EXCEPT ![t] = @ + 1]
         /\ pc' = [pc EXCEPT ![t] = "post"]
         /\ UNCHANGED <<result, semaphore, done>>
    ELSE /\ Finish(t, MaxRetriesReturn)
         /\ UNCHANGED <<attempt, posts>>

\* the except branch, or the 429 branch: asyncio.sleep(delay * (attempt + 1))
Backoff(t) ==
    /\ sleeps' = [sleeps EXCEPT ![t] = Append(@, SleepTime(attempt[t]))]
    /\ pc' = [pc EXCEPT ![t] = "sleep"]

\* line 101: the task enters "async with semaphore"; safe_post starts and,
\* range(MAX_RETRIES) not being empty, issues its first post (attempt = 0).
\* Which of the waiting tasks gets a free permit is left open: the tasks
\* reach the semaphore in the order the event loop first runs them.
Acquire(t) ==
    /\ pc[t] = "gate"
    /\ ~Locked
    /\ semaphore' = semaphore - 1
    /\ posts' = [posts EXCEPT ![t] = @ + 1]
    /\ pc' = [pc EXCEPT ![t] = "post"]
    /\ UNCHANGED <<software_list, script, attempt, status, sleeps, result,
                   done, i, events, served, running>>

\* no sleep after the failure of the last permitted attempt
PostRaisesNoFinalSleep(t) ==
    /\ pc[t] = "post"
    /\ CurrentOutcome(t).kind = "raise"
    /\ IF LoopContinues(attempt[t] + 1)
       THEN /\ Backoff(t)
            /\ UNCHANGED <<attempt, posts, result, semaphore, done>>
       ELSE /\ Finish(t, MaxRetriesReturn)
            /\ UNCHANGED <<attempt, posts, sleeps>>
    /\ UNCHANGED <<software_list, script, status, i, events, served, running>>

\* the sleep is started and not awaited: the next iteration begins at once
PostRaisesNoAwait(t) ==
    /\ pc[t] = "post"
    /\ CurrentOutcome(t).kind = "raise"
    /\ sleeps' = [sleeps EXCEPT ![t] = Append(@, SleepTime(attempt[t]))]
    /\ Iterate(t, attempt[t] + 1)
    /\ UNCHANGED <<software_list, script, status, i, events, served, running>>

\* line 81 raises: the except branch sleeps
PostRaises(t) ==
    /\ pc[t] = "post"
    /\ CurrentOutcome(t).kind = "raise"
    /\ Backoff(t)
    /\ UNCHANGED <<software_list, script, attempt, status, posts, result,
                   semaphore, done, i, events, served, running>>

\* the permit given back for the time of the backoff sleep
PostRateLimitedReleases(t) ==
    /\ pc[t] = "post"
    /\ CurrentOutcome(t).kind = "status"
    /\ IsRateLimit(CurrentOutcome(t).status)
    /\ Backoff(t)
    /\ semaphore' = semaphore + 1
    /\ UNCHANGED <<software_list, script, attempt, status, posts, result,
                   done, i, events, served, running>>

\* lines 82-84: status 429, sleep and continue
PostRateLimited(t) ==
    /\ pc[t] = "post"
    /\ CurrentOutcome(t).kind = "status"
    /\ IsRateLimit(CurrentOutcome(t).status)
    /\ Backoff(t)
    /\ UNCHANGED <<software_list, script, attempt, status, posts, result,
                   semaphore, done, i, events, served, running>>

\* line 85: any other status, await resp.text()
PostStatus(t) ==
    /\ pc[t] = "post"
    /\ CurrentOutcome(t).kind = "status"
    /\ ~IsRateLimit(CurrentOutcome(t).status)
    /\ status' = [status EXCEPT ![t] = CurrentOutcome(t).status]
    /\ pc' = [pc EXCEPT ![t] = "text"]
    /\ UNCHANGED <<software_list, script, attempt, posts, sleeps, result,
                   semaphore, done, i, events, served, running>>

\* line 85 raises while the body is read: the except branch sleeps
TextRaises(t) ==
    /\ pc[t] = "text"
    /\ ~CurrentOutcome(t).readable
    /\ Backoff(t)
    /\ UNCHANGED <<software_list, script, attempt, status, posts, result,
                   semaphore, done, i, events, served, running>>

\* lines 85-86: the body is read and safe_post returns (status, text)
TextRead(t) ==
    /\ pc[t] = "text"
    /\ CurrentOutcome(t).readable
    /\ Finish(t, [status |-> status[t], text |-> CurrentOutcome(t).text])
    /\ UNCHANGED <<software_list, script, attempt, status, posts, sleeps,
                   i, events, served, running>>

\* the sleep ends: next iteration of the for loop
SleepEnds(t) ==
    /\ pc[t] = "sleep"
    /\ Iterate(t, attempt[t] + 1)
    /\ UNCHANGED <<software_list, script, status, sleeps, i, events, served,
                   running>>

----------------------------------------------------------------------------
(* Steps of async_run *)

\* progress emitted before update_row
EmitProgressFirst ==
    /\ running
    /\ done # <<>>
    /\ LET t == Head(done)
       IN  IF result[t].exc = "none"
           THEN /\ events' = events \o
                      << Progress(ProgressPercent(i, N)),
                         UpdateRow(EmitIndex(i, t), result[t].value[2],
                                   result[t].value[3]) >>
                /\ served' = Append(served, t)
                /\ i' = i + 1
                /\ running' = running
           ELSE \* "await task" raises: the exception leaves async_run
                /\ running' = FALSE
                /\ UNCHANGED <<events, served, i>>
    /\ done' = Tail(done)
    /\ UNCHANGED <<software_list, script, pc, attempt, status, posts, sleeps,
                   result, semaphore>>

\* lines 137-141: the next finished task is yielded and awaited; update_row
\* and progress are emitted
Emit ==
    /\ running
    /\ done # <<>>
    /\ LET t == Head(done)
       IN  IF result[t].exc = "none"
           THEN /\ events' = events \o
                      << UpdateRow(EmitIndex(i, t), result[t].value[2],
                                   result[t].value[3]),
                         Progress(ProgressPercent(i, N)) >>
                /\ served' = Append(served, t)
                /\ i' = i + 1
                /\ running' = running
           ELSE \* "await task" raises: the exception leaves async_run
                /\ running' = FALSE
                /\ UNCHANGED <<events, served, i>>
    /\ done' = Tail(done)
    /\ UNCHANGED <<software_list, script, pc, attempt, status, posts, sleeps,
                   result, semaphore>>

\* as_completed is exhausted: the loop ends and async_run returns
Return ==
    /\ running
    /\ i = N
    /\ running' = FALSE
    /\ UNCHANGED <<software_list, script, pc, attempt, status, posts, sleeps,
                   result, semaphore, done, i, events, served>>

Next ==
    \/ \E t \in Tasks : Acquire(t)
    \/ \E t \in Tasks : PostRaises(t)
    \/ \E t \in Tasks : PostRateLimited(t)
    \/ \E t \in Tasks : PostStatus(t)
    \/ \E t \in Tasks : TextRaises(t)
    \/ \E t \in Tasks : TextRead(t)
    \/ \E t \in Tasks : SleepEnds(t)
    \/ Emit
    \/ Return

----------------------------------------------------------------------------
(* Initial states *)

\* the state when async_run has created the semaphore and the tasks
Start(list, scr) ==
    /\ software_list = list
    /\ script = scr
    /\ pc = [t \in 1..Len(list) |-> "gate"]
    /\ attempt = [t \in 1..Len(list) |-> 0]
    /\ status = [t \in 1..Len(list) |-> NoneStatus]
    /\ posts = [t \in 1..Len(list) |-> 0]
    /\ sleeps = [t \in 1..Len(list) |-> <<>>]
    /\ result = [t \in 1..Len(list) |-> Returned(<<>>)]
    /\ semaphore = MAX_CONCURRENT_REQUESTS
    /\ done = <<>>
    /\ i = 0
    /\ events = <<>>
    /\ served = <<>>
    /\ running = TRUE

Retryable == { o \in Outcomes : o.kind = "raise" \/ o.status = 429 \/ ~o.readable }

\* outcome sequences of at most n attempts in which every outcome before the
\* last is one safe_post retries after
RECURSIVE Scripts(_)
Scripts(n) ==
    IF n = 0 THEN { <<>> }
    ELSE { <<>> } \cup
         { <<o>> \o s : o \in Retryable, s \in Scripts(n - 1) } \cup
         { <<o>> : o \in Outcomes \ Retryable }

Safe200 == Outcome("status", 200, TRUE, Text("ok", "object", [safety |-> "SAFE", rca |-> ""]))

Harmful200 == Outcome("status", 200, TRUE, Text("ok", "object", [safety |-> "HARMFUL", rca |-> "trojan"]))

\* the scripts of the batch specifications
BatchScripts ==
    { <<Safe200>>,
      <<RateLimited, Harmful200>>,
      <<Raises, Outcome("status", 500, TRUE, NoText)>>,
      <<Outcome("status", 200, FALSE, NoText), Raises, RateLimited>> }

\* a batch of 0..MaxN items
Init ==
    \E n \in 0..MaxN :
        \E scr \in [1..n -> BatchScripts] :
            Start(SubSeq(Names, 1, n), scr)

Spec == Init /\ [][Next]_vars

\* one item, every script
InitCall ==
    \E s \in Scripts(MaxScriptLen) \ { <<>> } :
        Start(SubSeq(Names, 1, 1), [t \in 1..1 |-> s])

SpecCall == InitCall /\ [][Next]_vars

\* more items than permits
InitGate ==
    \E s \in BatchScripts :
        Start(SubSeq(Names, 1, MAX_CONCURRENT_REQUESTS + MaxExtra),
              [t \in 1..(MAX_CONCURRENT_REQUESTS + MaxExtra) |->
                  IF t = 1 THEN s ELSE <<Safe200>>])

SpecGate == InitGate /\ [][Next]_vars

\* the as_completed loop alone, from the state in which every task of a batch
\* of 1..MaxLen items has already returned SAFE, in input order
InitProgress ==
    \E n \in 1..MaxLen :
        /\ software_list = [t \in 1..n |-> "A"]
        /\ script = [t \in 1..n |-> <<Safe200>>]
        /\ pc = [t \in 1..n |-> "done"]
        /\ attempt = [t \in 1..n |-> 0]
        /\ status = [t \in 1..n |-> 200]
        /\ posts = [t \in 1..n |-> 1]
        /\ sleeps = [t \in 1..n |-> <<>>]
        /\ result = [t \in 1..n |-> Returned(<<"A", "SAFE", "">>)]
        /\ semaphore = MAX_CONCURRENT_REQUESTS
        /\ done = [t \in 1..n |-> t]
        /\ i = 0
        /\ events = <<>>
        /\ served = <<>>
        /\ running = TRUE

NextProgress == Emit \/ Return

SpecProgress == InitProgress /\ [][NextProgress]_vars

Malformed200 == Outcome("status", 200, TRUE, Text("ok", "notjson", EmptyObject))

\* the scripts of the second item of a pair
SiblingScripts ==
    { <<Safe200>>,
      <<Malformed200>>,
      <<Raises, Outcome("status", 500, TRUE, NoText)>>,
      <<RateLimited, Raises, RateLimited>> }

\* two items: every script for the first, beside a sibling that succeeds, is
\* rate limited, fails, or gets a malformed body
InitPair ==
    \E s \in Scripts(MaxScriptLen) \ { <<>> } : \E u \in SiblingScripts :
        Start(SubSeq(Names, 1, 2), [t \in 1..2 |-> IF t = 1 THEN s ELSE u])

SpecPair == InitPair /\ [][Next]_vars

\* The event loop runs every callback that is ready, each HTTP call resolves
\* (a response, or an exception at the 20 s timeout) and each sleep ends: a
\* step that can be taken is eventually taken. The batches: 0..MaxN items, and
\* one item more than the semaphore has permits.
InitFair ==
    \/ \E n \in 0..MaxN :
          \E scr \in [1..n -> BatchScripts \ { <<RateLimited, Harmful200>> }] :
              Start(SubSeq(Names, 1, n), scr)
    \/ Start(SubSeq(Names, 1, MAX_CONCURRENT_REQUESTS + 1),
             [t \in 1..(MAX_CONCURRENT_REQUESTS + 1) |-> <<Safe200>>])

FairSpec == InitFair /\ [][Next]_vars /\ WF_vars(Next)

----------------------------------------------------------------------------
(* Views of the emitted signals *)

IsUpdateRow(e) == e.signal = "update_row"

IsProgress(e) == e.signal = "progress"

\* the update_row events, in emission order
UpdateRows == SelectSeq(events, IsUpdateRow)

\* the progress events, in emission order
ProgressEvents == SelectSeq(events, IsProgress)

\* every task has returned and async_run has returned
BatchEnded == ~running

----------------------------------------------------------------------------
(* Properties *)

\* C1: the index carried by every emitted update_row is the input-list
\* position (task number minus one) of the item whose classification the
\* event carries.
IdentityPreserved ==
    /\ Len(UpdateRows) = Len(served)
    /\ \A k \in 1..Len(served) :
          /\ UpdateRows[k].index = served[k] - 1
          /\ UpdateRows[k].safety = result[served[k]].value[2]
          /\ UpdateRows[k].rca = result[served[k]].value[3]

InFlightBounded == Cardinality(InFlight) <= MAX_CONCURRENT_REQUESTS

\* C3 witness: the limit is reached while another task waits at the gate.
InFlightBoundedWitness ==
    /\ Cardinality(InFlight) = MAX_CONCURRENT_REQUESTS
    /\ \E t \in Tasks : pc[t] = "gate"


----------------------------------------------------------------------------
(* Views of one call *)

\* the service answered task t's j-th post with a transport failure or a 429
RetryableAt(t, j) ==
    OutcomeAt(t, j).kind = "raise" \/ OutcomeAt(t, j).status = 429

\* task t has received the reply to its j-th post
Received(t, j) == j \in 1..posts[t] /\ (j < posts[t] \/ pc[t] # "post")

\* the j-th reply to task t is an HTTP status other than 429
OtherStatusAt(t, j) ==
    OutcomeAt(t, j).kind = "status" /\ OutcomeAt(t, j).status # 429

\* the j-th reply to task t is a 200 whose body is read
Body200At(t, j) ==
    /\ OutcomeAt(t, j).kind = "status"
    /\ OutcomeAt(t, j).status = 200
    /\ OutcomeAt(t, j).readable

\* task t returned the classification (safety, rca)
Classified(t, safety, rca) ==
    /\ pc[t] = "done"
    /\ result[t] = Returned(<<software_list[t], safety, rca>>)

\* C4: after MAX_RETRIES consecutive retryable outcomes no attempt beyond
\* MAX_RETRIES is made and the classification is
\* (UNKNOWN, "Max retries exceeded").
ExhaustedReportsMaxRetries ==
    \A t \in Tasks :
        /\ posts[t] <= MAX_RETRIES
        /\ (pc[t] = "done" /\ \A j \in 1..MAX_RETRIES : RetryableAt(t, j))
              => /\ posts[t] = MAX_RETRIES
                 /\ Classified(t, "UNKNOWN", "Max retries exceeded")

\* what a reply with a status other than 429 ends the call with
TerminalAt(t, j) ==
    /\ posts[t] = j
    /\ Len(sleeps[t]) = j - 1
    /\ pc[t] \in {"text", "done"}
    /\ (pc[t] = "done" /\ OutcomeAt(t, j).status # 200)
          => Classified(t, "UNKNOWN", "Error fetching data")

\* C5 as stated: any status other than 429 is terminal on its first
\* occurrence: no sleep and no further attempt follow it, and a status other
\* than 200 gives (UNKNOWN, "Error fetching data").
OtherStatusTerminal ==
    \A t \in Tasks : \A j \in 1..posts[t] :
        (Received(t, j) /\ OtherStatusAt(t, j)) => TerminalAt(t, j)

\* C5 as amended: a status other than 429 whose body resp.text() reads
\* without raising is terminal on its first occurrence: no sleep and no
\* further attempt follow it, and a status other than 200 gives
\* (UNKNOWN, "Error fetching data"). When reading the body raises, the
\* backoff sleep of that attempt follows instead.
ReadableOtherStatusTerminal ==
    \A t \in Tasks : \A j \in 1..posts[t] :
        (Received(t, j) /\ OtherStatusAt(t, j)) =>
            IF OutcomeAt(t, j).readable
            THEN TerminalAt(t, j)
            ELSE (j < posts[t] \/ pc[t] \in {"sleep", "done"})
                    => /\ Len(sleeps[t]) >= j
                       /\ sleeps[t][j] = RETRY_DELAY * j

\* C5 witness: a 500 on the first attempt ended the call without a sleep.
ReadableOtherStatusTerminalWitness ==
    \E t \in Tasks :
        /\ OutcomeAt(t, 1).status = 500
        /\ OutcomeAt(t, 1).readable
        /\ posts[t] = 1
        /\ sleeps[t] = <<>>
        /\ Classified(t, "UNKNOWN", "Error fetching data")

\* the backoff sleeps that follow k retryable outcomes
Backoffs(k) == [j \in 1..k |-> RETRY_DELAY * j]

\* C6: k < MAX_RETRIES replies of 429 followed by a 200 make exactly k+1
\* attempts, the j-th sleep lasting delay*j and falling between attempt j and
\* attempt j+1, and the classification is the one of the 200's body.
RateLimitedThenOk ==
    \A t \in Tasks : \A k \in 0..(MAX_RETRIES - 1) :
        ((\A j \in 1..k : OutcomeAt(t, j) = RateLimited) /\ Body200At(t, k + 1))
        => /\ posts[t] <= k + 1
           /\ pc[t] \in {"post", "text"} => sleeps[t] = Backoffs(posts[t] - 1)
           /\ pc[t] = "sleep" => sleeps[t] = Backoffs(posts[t])
           /\ pc[t] = "done"
                 => /\ posts[t] = k + 1
                    /\ sleeps[t] = Backoffs(k)
                    /\ LET body == OutcomeAt(t, k + 1).text
                       IN  (body.content = "object" /\ DOMAIN body.obj = {"safety", "rca"})
                              => Classified(t, body.obj["safety"], body.obj["rca"])

\* C6 witness: [429, 429, 200] ended after 3 attempts and sleeps of 5 and 10.
RateLimitedThenOkWitness ==
    \E t \in Tasks :
        /\ OutcomeAt(t, 1) = RateLimited
        /\ OutcomeAt(t, 2) = RateLimited
        /\ Body200At(t, 3)
        /\ posts[t] = 3
        /\ sleeps[t] = <<RETRY_DELAY, 2 * RETRY_DELAY>>
        /\ Classified(t, "HARMFUL", "trojan")

\* C7: the progress values are integers in 0..100, never decrease, reach 100
\* with the N-th result and not before.
ProgressMonotone ==
    LET p == ProgressEvents
    IN  /\ \A k \in 1..Len(p) : p[k].value \in 0..100
        /\ \A k \in 1..(Len(p) - 1) : p[k].value <= p[k + 1].value
        /\ \A k \in 1..Len(p) : p[k].value = 100 <=> k = N
        /\ (BatchEnded /\ N > 0) => (Len(p) = N /\ p[N].value = 100)

\* C7 witness: a batch of three ended with progress 33, 66, 100.
ProgressMonotoneWitness ==
    /\ BatchEnded
    /\ N = 3
    /\ Len(ProgressEvents) = 3
    /\ ProgressEvents[1].value = 33
    /\ ProgressEvents[2].value = 66
    /\ ProgressEvents[3].value = 100

\* the body is not JSON, lacks choices[0].message.content, or its content is
\* not JSON
Malformed(text) ==
    text.envelope \in {"notjson", "nocontent"} \/ text.content = "notjson"

\* C8: a 200 whose body is malformed is classified
\* (UNKNOWN, "Could not parse response"), and no task ends with an exception.
MalformedIsUnknown ==
    \A t \in Tasks :
        pc[t] = "done" =>
            /\ result[t].exc = "none"
            /\ (Body200At(t, posts[t]) /\ Malformed(OutcomeAt(t, posts[t]).text))
                  => Classified(t, "UNKNOWN", "Could not parse response")

\* C8 witness: an envelope without choices[0].message.content was classified.
MalformedIsUnknownWitness ==
    \E t \in Tasks :
        /\ Body200At(t, posts[t])
        /\ OutcomeAt(t, posts[t]).text.envelope = "nocontent"
        /\ Classified(t, "UNKNOWN", "Could not parse response")

\* the 200 that ended task t carries a JSON object as its content
ObjectBody(t) ==
    /\ pc[t] = "done"
    /\ Body200At(t, posts[t])
    /\ OutcomeAt(t, posts[t]).text.envelope = "ok"
    /\ OutcomeAt(t, posts[t]).text.content = "object"

FinalObject(t) == OutcomeAt(t, posts[t]).text.obj

\* C9 as stated: an inner object without safety or without rca is classified
\* (UNKNOWN, "Could not parse response").
MissingKeyIsParseError ==
    \A t \in Tasks :
        (ObjectBody(t) /\ DOMAIN FinalObject(t) # {"safety", "rca"})
            => Classified(t, "UNKNOWN", "Could not parse response")

\* C9 as amended: an absent key is not a parse error: an absent safety is
\* reported as "UNKNOWN", an absent rca as "", and the key that is present is
\* passed through.
MissingKeyIsDefaulted ==
    \A t \in Tasks :
        ObjectBody(t) =>
            LET o == FinalObject(t)
            IN  Classified(t,
                    IF "safety" \in DOMAIN o THEN o["safety"] ELSE "UNKNOWN",
                    IF "rca" \in DOMAIN o THEN o["rca"] ELSE "")

\* C9 witness: an object with rca only was classified (UNKNOWN, its rca), and
\* the state holds no parse error.
MissingKeyIsDefaultedWitness ==
    \E t \in Tasks :
        /\ ObjectBody(t)
        /\ DOMAIN FinalObject(t) = {"rca"}
        /\ FinalObject(t)["rca"] = "trojan"
        /\ Classified(t, "UNKNOWN", "trojan")

\* every task returned, every result was emitted, async_run returned
AllEmitted ==
    /\ BatchEnded
    /\ \A t \in Tasks : pc[t] = "done"
    /\ Len(UpdateRows) = N

AllUnknownEnded ==
    /\ AllEmitted
    /\ N >= 2
    /\ \A t \in Tasks : result[t].value[2] = "UNKNOWN"

----------------------------------------------------------------------------
(* The classification as a function of the item's own outcomes *)

\* the (safety, rca) a well-formed or malformed 200 body stands for
BodyVerdict(text) ==
    IF text.envelope = "ok" /\ text.content = "object"
    THEN << IF "safety" \in DOMAIN text.obj THEN text.obj["safety"] ELSE "UNKNOWN",
            IF "rca" \in DOMAIN text.obj THEN text.obj["rca"] ELSE "" >>
    ELSE <<"UNKNOWN", "Could not parse response">>

\* the (safety, rca) that the outcome sequence scr alone determines, read
\* from its j-th outcome on
RECURSIVE Verdict(_, _)
Verdict(scr, j) ==
    IF j > MAX_RETRIES
    THEN <<"UNKNOWN", "Error fetching data">>
    ELSE LET o == IF j <= Len(scr) THEN scr[j] ELSE Raises
         IN  IF o.kind = "raise" \/ o.status = 429 \/ ~o.readable
             THEN Verdict(scr, j + 1)
             ELSE IF o.status = 200
                  THEN BodyVerdict(o.text)
                  ELSE <<"UNKNOWN", "Error fetching data">>

\* C11: the classification a task produces is the one its own outcome
\* sequence determines, whatever the sibling's outcomes and the scheduling,
\* and when the batch ends every item has produced and emitted its result.
FailureContained ==
    /\ \A t \in Tasks :
          pc[t] = "done" =>
              result[t] = Returned(<<software_list[t]>> \o Verdict(script[t], 1))
    /\ BatchEnded =>
          \A t \in Tasks :
              /\ pc[t] = "done"
              /\ \E k \in 1..Len(served) : served[k] = t

\* C11 witness: the sibling exhausted its retries, and the first item, which
\* completed first, has its own SAFE result.
FailureContainedWitness ==
    /\ BatchEnded
    /\ N = 2
    /\ served = <<1, 2>>
    /\ script[2] = <<RateLimited, Raises, RateLimited>>
    /\ script[1] = <<Raises, Safe200>>
    /\ result[1] = Returned(<<"A", "SAFE", "">>)
    /\ result[2] = Returned(<<"B", "UNKNOWN", "Error fetching data">>)

\* C12: the progress value emitted after the c-th result is
\* floor(100 * c / N).
ProgressIsFloor ==
    \A c \in 1..Len(ProgressEvents) :
        ProgressEvents[c].value = (100 * c) \div N

\* the posts of task t whose outcome (response, body or exception) is not in
\* yet
Outstanding(t) ==
    posts[t] - Len(sleeps[t]) - (IF pc[t] = "done" /\ Len(sleeps[t]) < posts[t] THEN 1 ELSE 0)

\* C13: within one call the attempts are sequential: a post is issued only
\* by a task at the gate or at the end of a backoff sleep, when every earlier
\* attempt has had its outcome and its sleep, and a task never has two
\* requests outstanding.
AttemptsSequential ==
    /\ [](\A t \in Tasks :
            /\ Outstanding(t) \in {0, 1}
            /\ Outstanding(t) = 1 <=> pc[t] \in {"post", "text"})
    /\ [][\A t \in Tasks :
            posts'[t] # posts[t] =>
                /\ posts'[t] = posts[t] + 1
                /\ pc[t] \in {"gate", "sleep"}
                /\ Len(sleeps[t]) = posts[t]
                /\ pc'[t] = "post"]_vars

\* C13 witness: a third attempt is in flight after two backoff sleeps.
AttemptsSequentialWitness ==
    \E t \in Tasks :
        /\ pc[t] = "post"
        /\ posts[t] = 3
        /\ sleeps[t] = <<RETRY_DELAY, 2 * RETRY_DELAY>>

\* C14: on every path the tuple a task returns carries the name of the item
\* the task was created for.
NameCarried ==
    \A t \in Tasks :
        pc[t] = "done" =>
            /\ result[t].exc = "none"
            /\ Len(result[t].value) = 3
            /\ result[t].value[1] = software_list[t]

\* C14 witness: a parse error and exhausted retries, each under its own name.
NameCarriedWitness ==
    /\ N = 2
    /\ Classified(1, "UNKNOWN", "Could not parse response")
    /\ script[2] = <<RateLimited, Raises, RateLimited>>
    /\ Classified(2, "UNKNOWN", "Error fetching data")
    /\ software_list[1] # software_list[2]

OtherSafetyPassedThrough ==
    \A t \in Tasks :
        ( /\ ObjectBody(t)
          /\ DOMAIN FinalObject(t) = {"safety", "rca"}
          /\ FinalObject(t)["safety"] \notin {"SAFE", "HARMFUL"} )
            => Classified(t, FinalObject(t)["safety"], FinalObject(t)["rca"])

\* C16 witness: the safety MAYBE was returned with its rca, after a retry.
OtherSafetyPassedThroughWitness ==
    \E t \in Tasks :
        /\ ObjectBody(t)
        /\ posts[t] = 2
        /\ FinalObject(t) = [safety |-> "MAYBE", rca |-> "trojan"]
        /\ Classified(t, "MAYBE", "trojan")

\* C17: a task keeps its permit for its whole retry sequence, backoff sleeps
\* included: the tasks attempting or backing off are never more than the
\* permits taken, hence never more than the concurrency limit, and a task
\* leaves the gate only while fewer than that many are attempting or backing
\* off.
PermitHeldThroughRetries ==
    /\ [](/\ semaphore >= 0
          /\ Cardinality(Holders) <= MAX_CONCURRENT_REQUESTS - semaphore)
    /\ [][\A t \in Tasks :
            (pc[t] = "gate" /\ pc'[t] # "gate")
                => Cardinality(Holders) < MAX_CONCURRENT_REQUESTS]_vars

\* C17 witness: a task sleeping in backoff is one of five permit holders
\* while another task waits at the closed gate.
PermitHeldThroughRetriesWitness ==
    /\ semaphore = 0
    /\ Cardinality(Holders) = MAX_CONCURRENT_REQUESTS
    /\ \E t \in Tasks : pc[t] = "sleep"
    /\ \E t \in Tasks : pc[t] = "gate"

\* the attempts of task t that ended in a 429 or in a transport failure (of
\* the post or of the body read)
FailedAttempts(t) ==
    { j \in 1..posts[t] :
        /\ j < posts[t] \/ pc[t] \in {"sleep", "done"}
        /\ \/ OutcomeAt(t, j).kind = "raise"
           \/ OutcomeAt(t, j).status = 429
           \/ ~OutcomeAt(t, j).readable }

\* C18: every retryable outcome on attempt n is followed by a sleep of
\* delay*n, the last permitted attempt included: the sleeps are delay*1,
\* delay*2, ..., as many as retryable outcomes seen, and a call that exhausts
\* its retries has slept MAX_RETRIES times when it returns.
SleepAfterEveryFailure ==
    \A t \in Tasks :
        /\ Len(sleeps[t]) = Cardinality(FailedAttempts(t))
        /\ sleeps[t] = Backoffs(Len(sleeps[t]))
        /\ (pc[t] = "done" /\ FailedAttempts(t) = 1..MAX_RETRIES)
              => sleeps[t] = Backoffs(MAX_RETRIES)

\* C18 witness: three transport failures, three sleeps (5, 10, 15), and the
\* call has returned.
SleepAfterEveryFailureWitness ==
    \E t \in Tasks :
        /\ pc[t] = "done"
        /\ \A j \in 1..MAX_RETRIES : OutcomeAt(t, j) = Raises
        /\ posts[t] = MAX_RETRIES
        /\ sleeps[t] = <<RETRY_DELAY, 2 * RETRY_DELAY, 3 * RETRY_DELAY>>

\* C19: the free permits plus the tasks holding one always make the gate's
\* capacity; a task takes a permit exactly when it leaves the gate and gives
\* it back exactly when it returns, never to go back to the gate or to hold
\* again, so all permits are free when the batch ends.
PermitsConserved ==
    /\ [](/\ semaphore + Cardinality(Holders) = MAX_CONCURRENT_REQUESTS
          /\ BatchEnded => semaphore = MAX_CONCURRENT_REQUESTS)
    /\ [][/\ \A t \in Tasks :
               /\ pc[t] # "gate" => pc'[t] # "gate"
               /\ pc[t] = "done" => pc'[t] = "done"
          /\ semaphore' - semaphore =
                Cardinality({ t \in Tasks : pc[t] # "done" /\ pc'[t] = "done" })
                - Cardinality({ t \in Tasks : pc[t] = "gate" /\ pc'[t] # "gate" })]_vars

\* C19 witness: a pair has ended, one task through the parse-error return
\* and one through exhausted retries, and five permits are free.
PermitsConservedWitness ==
    /\ BatchEnded
    /\ N = 2
    /\ semaphore = MAX_CONCURRENT_REQUESTS
    /\ Classified(1, "UNKNOWN", "Could not parse response")
    /\ script[2] = <<RateLimited, Raises, RateLimited>>
    /\ Classified(2, "UNKNOWN", "Error fetching data")

====
